---- MODULE Spec2Model ----
(***************************************************************************)
(* Model of webhook-token-refresh.py: the /refresh handler, the two token  *)
(* generation strategies with their output parsers, and the Lavalink push. *)
(* Text is a sequence of one-character strings.                            *)
(***************************************************************************)
EXTENDS Integers, Sequences, FiniteSets, TLC

(* ---------------------------------------------------------------------- *)
(* Bounds and program constants                                            *)
(* ---------------------------------------------------------------------- *)

\* longest token value a generator prints in the model
MaxTokenLen == 22

\* len(potential_token) > 20
TokenMinLen == 20
\* subprocess.run(["python3", ...], timeout=120)
PyTimeout == 120
\* subprocess.run(["docker", ...], timeout=60)
DockerTimeout == 60
\* response.status_code == 204
StatusNoContent == 204
\* handler's success and failure status codes
HttpOk == 200
HttpError == 500

(* ---------------------------------------------------------------------- *)
(* Python values: None / str                                               *)
(* ---------------------------------------------------------------------- *)

NoneV == [none |-> TRUE, s |-> <<>>]
Str(v) == [none |-> FALSE, s |-> v]
\* bool(x) for x in {None} \cup str
Truthy(x) == (~x.none) /\ Len(x.s) > 0
\* a or b
PyOr(a, b) == IF Truthy(a) THEN a ELSE b

(* ---------------------------------------------------------------------- *)
(* Assignment to a local: v is evaluated once, then F is applied to it     *)
(* ---------------------------------------------------------------------- *)

With(v, F(_)) == CHOOSE r \in {F(x) : x \in {v}} : TRUE

(* ---------------------------------------------------------------------- *)
(* str methods                                                             *)
(* ---------------------------------------------------------------------- *)

Whitespace == {" ", "\n", "\t", "\r"}

\* str.find(c): 0-based index of the first occurrence, -1 if none
Find(s, c) ==
  IF \E i \in 1..Len(s) : s[i] = c
  THEN (CHOOSE i \in 1..Len(s) : s[i] = c /\ \A j \in 1..(i-1) : s[j] # c) - 1
  ELSE -1

\* str.rfind(c): 0-based index of the last occurrence, -1 if none
RFind(s, c) ==
  IF \E i \in 1..Len(s) : s[i] = c
  THEN (CHOOSE i \in 1..Len(s) : s[i] = c /\ \A j \in (i+1)..Len(s) : s[j] # c) - 1
  ELSE -1

\* s[a:b] for 0 <= a <= b <= len(s)
Slice(s, a, b) == SubSeq(s, a + 1, b)

\* sub in s
Contains(s, sub) ==
  \E i \in 0..(Len(s) - Len(sub)) : SubSeq(s, i + 1, i + Len(sub)) = sub

LowerChar(c) ==
  CASE c = "T" -> "t"
    [] c = "D" -> "d"
    [] c = "V" -> "v"
    [] c = "E" -> "e"
    [] OTHER -> c

\* str.lower()
Lower(s) == [i \in 1..Len(s) |-> LowerChar(s[i])]

\* str.strip(chars): drop every leading and trailing character that is in cs
StripSet(s, cs) ==
  IF \A i \in 1..Len(s) : s[i] \in cs
  THEN <<>>
  ELSE LET a == CHOOSE i \in 1..Len(s) : s[i] \notin cs /\ \A j \in 1..(i-1) : s[j] \in cs
           b == CHOOSE i \in 1..Len(s) : s[i] \notin cs /\ \A j \in (i+1)..Len(s) : s[j] \in cs
       IN SubSeq(s, a, b)

\* line.split(':', 1)[1].strip().strip('"').strip("'")
ValueAfterColon(line) ==
  With(Slice(line, Find(line, ":") + 1, Len(line)), LAMBDA rest :
  With(StripSet(rest, Whitespace), LAMBDA a :
  With(StripSet(a, {"\""}), LAMBDA b : StripSet(b, {"'"}))))

\* output.split('\n')
SplitLines(s) ==
  With({i \in 1..Len(s) : s[i] = "\n"}, LAMBDA nl :
    LET \* position of the k-th newline; 0 before the first, Len(s) + 1 after the last
        at(k) == IF k = 0 THEN 0
                 ELSE IF k > Cardinality(nl) THEN Len(s) + 1
                 ELSE CHOOSE i \in nl : Cardinality({j \in nl : j < i}) = k - 1
    IN [k \in 1..(Cardinality(nl) + 1) |-> SubSeq(s, at(k - 1) + 1, at(k) - 1)])

(* ---------------------------------------------------------------------- *)
(* Words the parsers look for                                              *)
(* ---------------------------------------------------------------------- *)

W_token == <<"t","o","k","e","n">>
W_poToken == <<"p","o","T","o","k","e","n">>
W_visitorData == <<"v","i","s","i","t","o","r","D","a","t","a">>
W_visitor_data == <<"v","i","s","i","t","o","r","_","d","a","t","a">>
W_visitor == <<"v","i","s","i","t","o","r">>
W_data == <<"d","a","t","a">>
W_visitordata == <<"v","i","s","i","t","o","r","d","a","t","a">>

(* ---------------------------------------------------------------------- *)
(* json.loads on the texts the model's generators can print: an object of  *)
(* "string" : "string" members, whitespace allowed between tokens.         *)
(* Anything else raises (ok = FALSE).                                      *)
(* ---------------------------------------------------------------------- *)

\* first position at or after i that holds no whitespace
SkipWs(s, i) ==
  IF \E j \in i..Len(s) : s[j] \notin Whitespace
  THEN CHOOSE j \in i..Len(s) :
         s[j] \notin Whitespace /\ \A m \in i..(j-1) : s[m] \in Whitespace
  ELSE IF i > Len(s) THEN i ELSE Len(s) + 1

JsonFail == [ok |-> FALSE, keys |-> <<>>, vals |-> <<>>, next |-> 0]
StringFail == [ok |-> FALSE, val |-> <<>>, next |-> 0]

\* a JSON string starting at s[i] = '"'; control characters are rejected
JsonString(s, at) ==
  With(at, LAMBDA i :
    IF i > Len(s) \/ s[i] # "\"" THEN StringFail
    ELSE IF ~ \E j \in (i+1)..Len(s) : s[j] = "\"" THEN StringFail
    ELSE With(CHOOSE k \in (i+1)..Len(s) :
                s[k] = "\"" /\ \A m \in (i+1)..(k-1) : s[m] # "\"", LAMBDA j :
           IF \E m \in (i+1)..(j-1) : s[m] \in {"\n", "\t", "\r"}
           THEN StringFail
           ELSE [ok |-> TRUE, val |-> SubSeq(s, i + 1, j - 1), next |-> j + 1]))

\* members of an object, s[i] is the first character of a key
RECURSIVE JsonMembers(_, _, _, _)
JsonMembers(s, i, keys, vals) ==
  With(JsonString(s, i), LAMBDA k :
    IF ~k.ok THEN JsonFail
    ELSE With(SkipWs(s, k.next), LAMBDA c :
      IF c > Len(s) \/ s[c] # ":" THEN JsonFail
      ELSE With(JsonString(s, SkipWs(s, c + 1)), LAMBDA v :
        IF ~v.ok THEN JsonFail
        ELSE With(SkipWs(s, v.next), LAMBDA e :
          IF e > Len(s) THEN JsonFail
          ELSE IF s[e] = "}"
          THEN [ok |-> TRUE, keys |-> Append(keys, k.val),
                vals |-> Append(vals, v.val), next |-> e + 1]
          ELSE IF s[e] = ","
          THEN With(Append(keys, k.val), LAMBDA ks :
               With(Append(vals, v.val), LAMBDA vs :
                 JsonMembers(s, SkipWs(s, e + 1), ks, vs)))
          ELSE JsonFail))))

\* json.loads(text): ok = FALSE stands for JSONDecodeError
JsonLoads(text) ==
  With(text, LAMBDA s :
  With(SkipWs(s, 1), LAMBDA i :
    IF i > Len(s) \/ s[i] # "{" THEN JsonFail
    ELSE With(SkipWs(s, i + 1), LAMBDA m :
         With(IF m <= Len(s) /\ s[m] = "}"
              THEN [ok |-> TRUE, keys |-> <<>>, vals |-> <<>>, next |-> m + 1]
              ELSE JsonMembers(s, m, <<>>, <<>>), LAMBDA obj :
           IF ~obj.ok THEN JsonFail
           ELSE IF SkipWs(s, obj.next) <= Len(s) THEN JsonFail   \* Extra data
           ELSE obj))))

\* data.get(key): the last member named key wins, None when absent
DictGet(data, key) ==
  IF \E i \in 1..Len(data.keys) : data.keys[i] = key
  THEN LET i == CHOOSE k \in 1..Len(data.keys) :
                   data.keys[k] = key /\ \A m \in (k+1)..Len(data.keys) : data.keys[m] # key
       IN Str(data.vals[i])
  ELSE NoneV

NothingFound == [token |-> NoneV, visitor_data |-> NoneV]

\* the "Try JSON parsing" block, identical in both strategies
JsonExtract(output) ==
  With(Find(output, "{"), LAMBDA json_start :
  With(RFind(output, "}") + 1, LAMBDA json_end :
    IF json_start >= 0 /\ json_end > json_start
    THEN With(JsonLoads(Slice(output, json_start, json_end)), LAMBDA data :
           IF data.ok
           THEN [token |-> PyOr(DictGet(data, W_token), DictGet(data, W_poToken)),
                 visitor_data |-> PyOr(DictGet(data, W_visitorData),
                                       DictGet(data, W_visitor_data))]
           ELSE NothingFound)                                \* except: pass
    ELSE NothingFound))

(* ---------------------------------------------------------------------- *)
(* "Fallback: line-by-line parsing" of generate_token_python               *)
(* ---------------------------------------------------------------------- *)

\* the length test on a token candidate
LongEnough(potential_token) == Len(potential_token) > TokenMinLen

\* one iteration of the for loop; st = [token, visitor_data]
PyScanLine(st, line) ==
  With(Lower(line), LAMBDA line_lower :
    IF Contains(line_lower, W_token) /\ Contains(line, <<":">>)
    THEN With(ValueAfterColon(line), LAMBDA potential_token :
           IF LongEnough(potential_token)
           THEN [st EXCEPT !.token = Str(potential_token)]
           ELSE st)
    ELSE IF (Contains(line_lower, W_visitor) /\ Contains(line_lower, W_data))
            \/ Contains(line_lower, W_visitordata)
    THEN IF Contains(line, <<":">>)
         THEN [st EXCEPT !.visitor_data = Str(ValueAfterColon(line))]
         ELSE st
    ELSE st)

\* for line in output.split('\n')
RECURSIVE PyScan(_, _, _)
PyScan(st, lines, i) ==
  IF i > Len(lines) THEN st
  ELSE With(PyScanLine(st, lines[i]), LAMBDA st1 : PyScan(st1, lines, i + 1))

(* ---------------------------------------------------------------------- *)
(* "Fallback: line-by-line parsing" of generate_token_docker               *)
(* ---------------------------------------------------------------------- *)

DockerScanLine(st, line) ==
  With(Lower(line), LAMBDA line_lower :
    IF Contains(line_lower, W_token) /\ Contains(line, <<":">>)
    THEN [st EXCEPT !.token = Str(ValueAfterColon(line))]
    ELSE IF Contains(line_lower, W_visitor) /\ Contains(line_lower, W_data)
            /\ Contains(line, <<":">>)
    THEN [st EXCEPT !.visitor_data = Str(ValueAfterColon(line))]
    ELSE st)

\* for line in output.split('\n')
RECURSIVE DockerScan(_, _, _)
DockerScan(st, lines, i) ==
  IF i > Len(lines) THEN st
  ELSE With(DockerScanLine(st, lines[i]), LAMBDA st1 : DockerScan(st1, lines, i + 1))

(* ---------------------------------------------------------------------- *)
(* Result of a strategy: None or {"token": ..., "visitorData": ...}        *)
(* ---------------------------------------------------------------------- *)

NoTokens == [none |-> TRUE, token |-> <<>>, visitorData |-> <<>>]
Pair(t, v) == [none |-> FALSE, token |-> t, visitorData |-> v]

PairOrNone_either(token, visitor_data) ==
  IF Truthy(token) \/ Truthy(visitor_data)
  THEN Pair(token.s, visitor_data.s)
  ELSE NoTokens

\* if token and visitor_data: return {...} else: return None
PairOrNone(token, visitor_data) ==
  IF Truthy(token) /\ Truthy(visitor_data)
  THEN Pair(token.s, visitor_data.s)
  ELSE NoTokens

\* lines 78-110: parse the output of the local generator
\* scanned: the line-by-line fallback ran; jsonToken: JSON gave a token
ParsePython(output) ==
  With(JsonExtract(output), LAMBDA j :
  With(~Truthy(j.token) \/ ~Truthy(j.visitor_data), LAMBDA scan :
  With(IF scan THEN With(SplitLines(output), LAMBDA lines : PyScan(j, lines, 1)) ELSE j,
       LAMBDA st :
    [tokens |-> PairOrNone(st.token, st.visitor_data),
     scanned |-> scan, jsonToken |-> Truthy(j.token)])))

\* lines 137-165: parse the output of the container
ParseDocker(output) ==
  With(JsonExtract(output), LAMBDA j :
  With(~Truthy(j.token) \/ ~Truthy(j.visitor_data), LAMBDA scan :
  With(IF scan THEN With(SplitLines(output), LAMBDA lines : DockerScan(j, lines, 1)) ELSE j,
       LAMBDA st :
    [tokens |-> PairOrNone(st.token, st.visitor_data),
     scanned |-> scan, jsonToken |-> Truthy(j.token)])))

(* ---------------------------------------------------------------------- *)
(* What the external generator may print                                   *)
(* ---------------------------------------------------------------------- *)

Rep(n) == [i \in 1..n |-> "a"]

\* lengths of the token values the generators print
TokenLens == {0, 1, TokenMinLen, TokenMinLen + 1, MaxTokenLen}
VisitorVals == {<<>>, <<"v", "1">>}

Quoted(v) == <<"\"">> \o v \o <<"\"">>

\* log lines around the payload
NoiseLines ==
  { <<>>,
    <<"o", "k", "\n">>,
    <<"{", "x", "}", "\n">>,
    <<"}", "\n">>,
    <<"n", "o", " ">> \o W_token \o <<":", " ", "x", "\n">> }

NoJSON == [has |-> FALSE, token |-> <<>>, visitor |-> <<>>]

\* {"<tkey>": "<t>", "<vkey>": "<v>"}
JsonBody(tkey, t, vkey, v) ==
  <<"{">> \o Quoted(tkey) \o <<":", " ">> \o Quoted(t) \o <<",", " ">>
          \o Quoted(vkey) \o <<":", " ">> \o Quoted(v) \o <<"}", "\n">>

JsonBodies ==
  { [text |-> JsonBody(tkey, Rep(n), vkey, v),
     embedded |-> [has |-> TRUE, token |-> Rep(n), visitor |-> v]] :
      tkey \in {W_token, W_poToken}, n \in {0, 1, MaxTokenLen},
      vkey \in {W_visitorData, W_visitor_data}, v \in VisitorVals }

\* Token: <t>  /  visitorData: <v>   (optionally quoted, optionally no visitor line)
LineBody(tlabel, t, vline) == tlabel \o <<":", " ">> \o t \o <<"\n">> \o vline

VisitorLines ==
  { <<>>,
    W_visitorData \o <<":", " ", "v", "1", "\n">>,
    <<"V">> \o <<"i","s","i","t","o","r"," ","D","a","t","a">> \o <<":", " ">>
            \o Quoted(<<"v", "1">>) \o <<"\n">>,
    W_visitor_data \o <<":", "\n">> }

LineBodies ==
  { [text |-> LineBody(tlabel, t, vline), embedded |-> NoJSON] :
      tlabel \in {<<"T","o","k","e","n">>, W_poToken},
      t \in {Rep(n) : n \in TokenLens} \cup {Quoted(Rep(TokenMinLen))},
      vline \in VisitorLines }

OtherBodies ==
  { [text |-> <<>>, embedded |-> NoJSON],
    \* malformed JSON
    [text |-> <<"{">> \o Quoted(W_token) \o <<":", " ", "\n">>, embedded |-> NoJSON] }

Bodies == JsonBodies \cup LineBodies \cup OtherBodies

\* standard output of a generator run
Stdouts ==
  { [text |-> pre \o b.text \o post, embedded |-> b.embedded] :
      pre \in NoiseLines, b \in Bodies, post \in {<<>>, <<"{", "\n">>} }

\* standard error of a generator run
Stderrs == { <<>>, <<"}", "\n">> }

(* ---------------------------------------------------------------------- *)
(* Exceptions, responses, the proxy push                                   *)
(* ---------------------------------------------------------------------- *)

\* exception classes the subprocess calls raise; all derive from Exception
XvfbOutcomes == {"started", "already_running", "FileNotFoundError", "PermissionError"}
XvfbFailures == {"FileNotFoundError", "PermissionError"}
PyRunOutcomes == {"completed", "TimeoutExpired", "FileNotFoundError"}
DockerOutcomes == {"zero", "nonzero", "FileNotFoundError", "TimeoutExpired", "PermissionError"}
DockerExceptions == {"FileNotFoundError", "TimeoutExpired", "PermissionError"}

\* except subprocess.TimeoutExpired / except Exception of generate_token_python
PyCatches_onlyTimeout(e) == e = "TimeoutExpired"
PyCatches(e) == e = "TimeoutExpired" \/ e \in {"FileNotFoundError", "PermissionError"}

\* outcomes of docker's subprocess.run after which generate_token_python() is called
DockerFallsBack_alsoNonzero(r) == r \in DockerExceptions \cup {"nonzero"}
DockerFallsBack(r) == r = "FileNotFoundError" \/ r \in DockerExceptions

\* if not tokens and USE_DOCKER
TryDocker_ignoreTokens(t, useDocker) == useDocker
TryDocker_ignoreFlag(t, useDocker) == t.none
TryDocker(t, useDocker) == t.none /\ useDocker

NoResponse == [status |-> 0, success |-> FALSE, error |-> "", message |-> ""]
Ok200 == [status |-> HttpOk, success |-> TRUE, error |-> "",
          message |-> "Token refreshed successfully"]
Fail500(err) == [status |-> HttpError, success |-> FALSE, error |-> err, message |-> ""]

\* lines 217-220
PushResponse_always200(pushed) == Ok200
PushResponse(pushed) == IF pushed THEN Ok200 ELSE Fail500("Failed to update Lavalink")

\* what requests.post may do
NetOutcomes ==
  { [kind |-> "status", code |-> c, err |-> ""] : c \in {200, 201, 204, 401, 404, 500} }
  \cup { [kind |-> "error", code |-> 0, err |-> e] : e \in {"ConnectionError", "Timeout"} }
NoNet == [kind |-> "none", code |-> 0, err |-> ""]

\* update_lavalink_token's verdict on the outcome of requests.post
UpdateLavalinkToken_any2xx(net) ==
  [raised |-> FALSE, ret |-> net.kind = "status" /\ net.code >= 200 /\ net.code < 300]
UpdateLavalinkToken(net) ==
  IF net.kind = "error"
  THEN [raised |-> FALSE, ret |-> FALSE]               \* except Exception: return False
  ELSE [raised |-> FALSE, ret |-> net.code = StatusNoContent]

NoRequest == [url |-> <<>>, poToken |-> <<>>, visitorData |-> <<>>]
\* url = f"{LAVALINK_URL}/youtube", payload
PushRequest(t) == [url |-> <<"LAVALINK_URL", "/youtube">>,
                   poToken |-> t.token, visitorData |-> t.visitorData]

NoParse == [scanned |-> FALSE, jsonToken |-> FALSE, by |-> "none"]

(* ---------------------------------------------------------------------- *)
(* State                                                                   *)
(* ---------------------------------------------------------------------- *)

VARIABLES
  USE_DOCKER,      \* configuration flag, read once at startup
  pc,              \* position of the request being handled
  caller,          \* who called generate_token_python: "handler" or "docker"
  tokens,          \* value returned by the last strategy call
  output,          \* text handed to the parser
  embedded,        \* the JSON object the generator printed, if any
  parseInfo,       \* how the last parse went
  xvfb,            \* outcome of the Xvfb launch in the current python call
  genRan,          \* the generator was run in the current python call
  raised,          \* exceptions raised inside strategies during this request
  escaped,         \* an exception left a strategy
  pyCalls,         \* calls of generate_token_python in this request
  genLaunches,     \* generator subprocesses started in this request
  dockerCalls,     \* calls of generate_token_docker in this request
  dockerLaunches,  \* container subprocesses started in this request
  dockerOutcome,   \* outcome of the container run in this request
  pySucceeded,     \* generate_token_python returned a pair in this request
  pyFailed,        \* generate_token_python returned None in this request
  pushCalls,       \* calls of update_lavalink_token in this request
  pushResult,      \* its return value
  netOutcome,      \* what requests.post did
  pushRequest,     \* the request it sent
  response         \* the HTTP response of /refresh

vars == <<USE_DOCKER, pc, caller, tokens, output, embedded, parseInfo, xvfb, genRan,
          raised, escaped, pyCalls, genLaunches, dockerCalls, dockerLaunches,
          dockerOutcome, pySucceeded, pyFailed, pushCalls, pushResult,
          netOutcome, pushRequest, response>>

\* sum of the timeouts of the subprocesses started in this request
TimeoutSum == genLaunches * PyTimeout + dockerLaunches * DockerTimeout

pushVars == <<pushCalls, pushResult, netOutcome, pushRequest>>
dockerVars == <<dockerCalls, dockerLaunches, dockerOutcome>>
parseVars == <<output, embedded, parseInfo>>

Init ==
  /\ USE_DOCKER \in BOOLEAN
  /\ pc = "idle"
  /\ caller = "handler"
  /\ tokens = NoTokens
  /\ output = <<>>
  /\ embedded = NoJSON
  /\ parseInfo = NoParse
  /\ xvfb = "none"
  /\ genRan = FALSE
  /\ raised = {}
  /\ escaped = FALSE
  /\ pyCalls = 0
  /\ genLaunches = 0
  /\ dockerCalls = 0
  /\ dockerLaunches = 0
  /\ dockerOutcome = "none"
  /\ pySucceeded = FALSE
  /\ pyFailed = FALSE
  /\ pushCalls = 0
  /\ pushResult = FALSE
  /\ netOutcome = NoNet
  /\ pushRequest = NoRequest
  /\ response = NoResponse

(* ---------------------------------------------------------------------- *)
(* refresh_token: a request arrives, generate_token_python() is called     *)
(* ---------------------------------------------------------------------- *)

Request ==
  /\ pc \in {"idle", "done"}
  /\ pc' = "py_locate"
  /\ caller' = "handler"
  /\ tokens' = NoTokens
  /\ output' = <<>>
  /\ embedded' = NoJSON
  /\ parseInfo' = NoParse
  /\ xvfb' = "none"
  /\ genRan' = FALSE
  /\ raised' = {}
  /\ escaped' = FALSE
  /\ pyCalls' = 1
  /\ genLaunches' = 0
  /\ dockerCalls' = 0
  /\ dockerLaunches' = 0
  /\ dockerOutcome' = "none"
  /\ pySucceeded' = FALSE
  /\ pyFailed' = FALSE
  /\ pushCalls' = 0
  /\ pushResult' = FALSE
  /\ netOutcome' = NoNet
  /\ pushRequest' = NoRequest
  /\ response' = NoResponse
  /\ UNCHANGED USE_DOCKER

(* ---------------------------------------------------------------------- *)
(* generate_token_python                                                   *)
(* ---------------------------------------------------------------------- *)

\* return r
PyReturns(r) ==
  /\ pc' = "py_return"
  /\ tokens' = r
  /\ pySucceeded' = (pySucceeded \/ ~r.none)
  /\ pyFailed' = (pyFailed \/ r.none)
  /\ escaped' = escaped
  /\ response' = response

\* exception e is raised inside the try block: the except clauses return None,
\* an exception they do not name reaches refresh_token's except (lines 222-224)
PyRaises(e) ==
  /\ raised' = raised \cup {<<"python", e>>}
  /\ IF PyCatches(e)
     THEN PyReturns(NoTokens)
     ELSE /\ pc' = "done"
          /\ escaped' = TRUE
          /\ response' = Fail500("exception")
          /\ UNCHANGED <<tokens, pySucceeded, pyFailed>>

\* lines 42-53: look for the generator script
PyLocate ==
  /\ pc = "py_locate"
  /\ \E generator_path \in {"main.py", "generate.py", "glob", "none"} :
       IF generator_path = "none"
       THEN PyReturns(NoTokens)
       ELSE /\ pc' = "py_xvfb"
            /\ UNCHANGED <<tokens, pySucceeded, pyFailed, escaped, response>>
  /\ UNCHANGED <<USE_DOCKER, caller, parseVars, xvfb, genRan, raised, pyCalls,
                 genLaunches, dockerVars, pushVars>>

\* lines 61-64: subprocess.Popen(['Xvfb', ...]); an Xvfb that is already
\* running makes the new one exit by itself, Popen still succeeds
PyXvfb ==
  /\ pc = "py_xvfb"
  /\ \E r \in XvfbOutcomes :
       /\ xvfb' = r
       /\ IF r \in XvfbFailures
          THEN PyRaises(r)
          ELSE /\ pc' = "py_run"
               /\ UNCHANGED <<tokens, pySucceeded, pyFailed, escaped, response, raised>>
  /\ UNCHANGED <<USE_DOCKER, caller, parseVars, genRan, pyCalls,
                 genLaunches, dockerVars, pushVars>>

\* lines 67-76: subprocess.run(["python3", generator_path], timeout=120);
\* the return code is not looked at, output = stdout + stderr
PyRun ==
  /\ pc = "py_run"
  /\ \E r \in PyRunOutcomes :
       CASE r = "completed" ->
              /\ \E so \in Stdouts, se \in Stderrs :
                   /\ output' = so.text \o se
                   /\ embedded' = so.embedded
              /\ genRan' = TRUE
              /\ genLaunches' = genLaunches + 1
              /\ pc' = "py_parse"
              /\ UNCHANGED <<tokens, pySucceeded, pyFailed, escaped, response, raised>>
         [] r = "TimeoutExpired" ->
              /\ genRan' = TRUE
              /\ genLaunches' = genLaunches + 1
              /\ PyRaises(r)
              /\ UNCHANGED <<output, embedded>>
         [] OTHER ->
              /\ PyRaises(r)
              /\ UNCHANGED <<output, embedded, genRan, genLaunches>>
  /\ UNCHANGED <<USE_DOCKER, caller, parseInfo, xvfb, pyCalls, dockerVars, pushVars>>

\* lines 78-110: parse the output and return the pair or None
PyParse ==
  /\ pc = "py_parse"
  /\ LET r == ParsePython(output)
     IN /\ parseInfo' = [scanned |-> r.scanned, jsonToken |-> r.jsonToken, by |-> "python"]
        /\ PyReturns(r.tokens)
  /\ output' = <<>>                       \* the local goes out of scope
  /\ UNCHANGED <<USE_DOCKER, caller, embedded, xvfb, genRan, raised, pyCalls,
                 genLaunches, dockerVars, pushVars>>

\* the value goes back to the call site: line 209, or lines 169/172 where
\* generate_token_docker returns it as its own result
PyReturn ==
  /\ pc = "py_return"
  /\ pc' = IF caller = "handler" THEN "after_py" ELSE "check_tokens"
  /\ UNCHANGED <<USE_DOCKER, caller, tokens, parseVars, xvfb, genRan, raised, escaped,
                 pyCalls, genLaunches, dockerVars, pySucceeded, pyFailed,
                 pushVars, response>>

(* ---------------------------------------------------------------------- *)
(* refresh_token, lines 210-212, and generate_token_docker                 *)
(* ---------------------------------------------------------------------- *)

AfterPy ==
  /\ pc = "after_py"
  /\ IF TryDocker(tokens, USE_DOCKER)
     THEN /\ pc' = "docker_run"
          /\ dockerCalls' = dockerCalls + 1
     ELSE /\ pc' = "check_tokens"
          /\ UNCHANGED dockerCalls
  /\ UNCHANGED <<USE_DOCKER, caller, tokens, parseVars, xvfb, genRan, raised, escaped,
                 pyCalls, genLaunches, dockerLaunches, dockerOutcome,
                 pySucceeded, pyFailed, pushVars, response>>

\* lines 124-135 and 167-172: subprocess.run(["docker", ...], timeout=60)
DockerRun ==
  /\ pc = "docker_run"
  /\ \E r \in DockerOutcomes :
       /\ dockerOutcome' = r
       /\ dockerLaunches' = IF r = "FileNotFoundError" \/ r = "PermissionError"
                            THEN dockerLaunches ELSE dockerLaunches + 1
       /\ raised' = IF r \in DockerExceptions
                    THEN raised \cup {<<"docker", r>>} ELSE raised
       /\ IF DockerFallsBack(r)
          THEN \* return generate_token_python()
               /\ pc' = "py_locate"
               /\ caller' = "docker"
               /\ pyCalls' = pyCalls + 1
               /\ xvfb' = "none"
               /\ genRan' = FALSE
               /\ embedded' = NoJSON
               /\ UNCHANGED <<tokens, output>>
          ELSE IF r = "zero"
          THEN /\ \E so \in Stdouts :
                    /\ output' = so.text
                    /\ embedded' = so.embedded
               /\ pc' = "docker_parse"
               /\ UNCHANGED <<caller, pyCalls, xvfb, genRan, tokens>>
          ELSE \* returncode != 0: return None
               /\ pc' = "check_tokens"
               /\ tokens' = NoTokens
               /\ embedded' = NoJSON
               /\ UNCHANGED <<caller, pyCalls, xvfb, genRan, output>>
  /\ parseInfo' = NoParse
  /\ UNCHANGED <<USE_DOCKER, escaped, genLaunches, dockerCalls,
                 pySucceeded, pyFailed, pushVars, response>>

\* lines 137-165
DockerParse ==
  /\ pc = "docker_parse"
  /\ LET r == ParseDocker(output)
     IN /\ parseInfo' = [scanned |-> r.scanned, jsonToken |-> r.jsonToken, by |-> "docker"]
        /\ tokens' = r.tokens
  /\ pc' = "check_tokens"
  /\ output' = <<>>                       \* the local goes out of scope
  /\ UNCHANGED <<USE_DOCKER, caller, embedded, xvfb, genRan, raised, escaped,
                 pyCalls, genLaunches, dockerVars, pySucceeded, pyFailed,
                 pushVars, response>>

(* ---------------------------------------------------------------------- *)
(* refresh_token, lines 214-220, and update_lavalink_token                 *)
(* ---------------------------------------------------------------------- *)

CheckTokens ==
  /\ pc = "check_tokens"
  /\ IF tokens.none
     THEN /\ response' = Fail500("Failed to generate token")
          /\ pc' = "done"
     ELSE /\ pc' = "push"
          /\ UNCHANGED response
  /\ UNCHANGED <<USE_DOCKER, caller, tokens, parseVars, xvfb, genRan, raised, escaped,
                 pyCalls, genLaunches, dockerVars, pySucceeded, pyFailed,
                 pushVars>>

Push ==
  /\ pc = "push"
  /\ \E net \in NetOutcomes :
       LET r == UpdateLavalinkToken(net)
       IN /\ netOutcome' = net
          /\ pushRequest' = PushRequest(tokens)
          /\ pushCalls' = pushCalls + 1
          /\ pushResult' = r.ret
          /\ response' = IF r.raised THEN Fail500("exception") ELSE PushResponse(r.ret)
  /\ pc' = "done"
  /\ UNCHANGED <<USE_DOCKER, caller, tokens, parseVars, xvfb, genRan, raised, escaped,
                 pyCalls, genLaunches, dockerVars, pySucceeded, pyFailed>>

Next ==
  \/ Request
  \/ PyLocate
  \/ PyXvfb
  \/ PyRun
  \/ PyParse
  \/ PyReturn
  \/ AfterPy
  \/ DockerRun
  \/ DockerParse
  \/ CheckTokens
  \/ Push

Spec == Init /\ [][Next]_vars

(* ---------------------------------------------------------------------- *)
(* Properties                                                              *)
(* ---------------------------------------------------------------------- *)

\* the request has its generation result in hand, straight from a parse
Parsed == parseInfo.by # "none" /\ pc \in {"py_return", "after_py", "check_tokens"}

\* C1: a finished /refresh request answers 200 with success=true exactly when
\* generation returned a pair and the push returned True in that request;
\* in every other case it answers 500 with success=false and an error field.
C1_RefreshResponse ==
  pc = "done" =>
    LET good == ~tokens.none /\ pushCalls = 1 /\ pushResult
    IN /\ response.status \in {HttpOk, HttpError}
       /\ good => (response.status = HttpOk /\ response.success /\ response.error = "")
       /\ ~good => (response.status = HttpError /\ ~response.success /\ response.error # "")

C1_Witness == pc = "done" /\ response.status = HttpOk /\ response.success /\ pushResult

\* C2 as stated: once generate_token_python has returned a pair in a request,
\* generate_token_docker has not been invoked in that request.
C2_Original == pySucceeded => dockerCalls = 0

\* C2 amended: when the handler's own call of generate_token_python returns a
\* pair, generate_token_docker is never invoked in the request; a pair may also
\* come from the re-attempt generate_token_docker makes after its run raised,
\* and then generate_token_docker was invoked once, before that pair, and is
\* not running or invoked again.
C2_NoDockerAfterPySuccess ==
  pySucceeded =>
    \/ dockerCalls = 0
    \/ /\ caller = "docker"
       /\ pyCalls = 2
       /\ dockerCalls = 1
       /\ dockerOutcome \in DockerExceptions
       /\ pc \notin {"docker_run", "docker_parse"}

C2_Witness ==
  pc = "done" /\ USE_DOCKER /\ pySucceeded /\ pyCalls = 1 /\ dockerCalls = 0

\* C3: when generate_token_python has failed and USE_DOCKER is false, no
\* container call or subprocess happens, the push is not attempted, and the
\* request ends with 500 "Failed to generate token".
C3_NoDockerWhenDisabled ==
  (~USE_DOCKER /\ pyFailed) =>
    /\ dockerCalls = 0
    /\ dockerLaunches = 0
    /\ pushCalls = 0
    /\ pc \notin {"docker_run", "docker_parse", "push"}
    /\ pc = "done" => response = Fail500("Failed to generate token")

C3_Witness == ~USE_DOCKER /\ pyFailed /\ pc = "done" /\ response.status = HttpError

\* C4: update_lavalink_token posts to {LAVALINK_URL}/youtube and returns True
\* exactly when the answer's status is 204; any other status and any network
\* error give False, and no exception leaves it.
C4_PushOnly204 ==
  pushCalls > 0 =>
    /\ pushResult = (netOutcome.kind = "status" /\ netOutcome.code = 204)
    /\ pushRequest.url = <<"LAVALINK_URL", "/youtube">>
    /\ response.error # "exception"

C4_Witness ==
  pushCalls = 1 /\ netOutcome.kind = "status" /\ netOutcome.code = 200 /\ ~pushResult

\* C5: when the generator's output holds a valid JSON object with a non-empty
\* token and a non-empty visitor value, the parser returns exactly those two
\* values, whatever noise surrounds the object.
C5_EmbeddedJsonWins ==
  (Parsed /\ embedded.has /\ embedded.token # <<>> /\ embedded.visitor # <<>>)
    => tokens = Pair(embedded.token, embedded.visitor)

\* C6: in either strategy, a token that the line scan took from a
\* "token ... :" line is longer than 20 characters.
C6_ShortCandidateRejected ==
  (Parsed /\ parseInfo.scanned /\ ~parseInfo.jsonToken /\ ~tokens.none)
    => Len(tokens.token) > 20

\* C7: when the Xvfb launch failed or Xvfb was already running, the generator
\* has still been run by the time generate_token_python returns.
C7_XvfbFailureNonFatal ==
  (pc = "py_return" /\ xvfb \in XvfbFailures \cup {"already_running"}) => genRan

\* C8 as stated: in one request the local generator is launched at most once,
\* the container at most once, and the timeouts sum to at most 120 + 60.
C8_Original ==
  /\ genLaunches <= 1
  /\ dockerLaunches <= 1
  /\ TimeoutSum <= 120 + 60

\* C8 amended: in one request the local generator is launched at most twice,
\* the second time only by generate_token_docker's fallback after its run
\* raised, the container at most once, and the timeouts sum to at most
\* 120 + 60 + 120.
C8_AtMostOneReattempt ==
  /\ pyCalls <= 2
  /\ genLaunches <= pyCalls
  /\ dockerCalls <= 1
  /\ dockerLaunches <= dockerCalls
  /\ TimeoutSum <= 120 + 60 + 120
  /\ pyCalls = 2 => (dockerCalls = 1 /\ dockerOutcome \in DockerExceptions)

C8_Witness ==
  pc = "done" /\ genLaunches = 2 /\ dockerLaunches = 1 /\ TimeoutSum = 300

\* C9: no exception leaves a strategy: whatever is raised inside one, the
\* strategy returns None or a pair, and the handler's catch-all answer is
\* never produced.
C9_NoStrategyException ==
  /\ ~escaped
  /\ response.error # "exception"
  /\ (raised # {} /\ pc = "py_return" /\ parseInfo.by = "none") => tokens.none

C9_Witness ==
  /\ pc = "done"
  /\ <<"docker", "TimeoutExpired">> \in raised
  /\ <<"python", "FileNotFoundError">> \in raised
  /\ response = Fail500("Failed to generate token")

\* C10: a strategy's result is None or a pair with both fields non-empty; the
\* push happens at most once per request, only with such a pair, and sends
\* exactly its two fields.
C10_NoPartialResult ==
  /\ ~tokens.none => (tokens.token # <<>> /\ tokens.visitorData # <<>>)
  /\ pushCalls <= 1
  /\ (pc = "push" \/ pushCalls = 1) => ~tokens.none
  /\ pushCalls = 1 => /\ pushRequest.poToken = tokens.token
                      /\ pushRequest.visitorData = tokens.visitorData
                      /\ pushRequest.poToken # <<>>
                      /\ pushRequest.visitorData # <<>>

C10_Witness ==
  pushCalls = 1 /\ parseInfo.by = "python" /\ parseInfo.scanned /\ pc = "done"

====
